---------------------------- MODULE Spec2Model ----------------------------
(***************************************************************************)
(* Model of redash/query_runner/mssql_all_datasources.py:                  *)
(* SqlServerAllDatasources.run_query (fan-out over discovered databases),  *)
(* SqlServerAllDatasources._get_tables (schema introspection) and          *)
(* SqlServerAllDatasources.run_query_on_datasource (one connection, one    *)
(* query).  The pymssql driver is an opaque environment: each of       *)
(* connect / execute / fetchall either succeeds or raises pymssql.Error,   *)
(* KeyboardInterrupt or some other Exception; cancel() and close() on an   *)
(* open connection are taken to succeed.  A failure of any other statement *)
(* of the try body after connect (lines 176-196) takes the same handlers   *)
(* with the same effect as a failure of execute or fetchall.               *)
(*                                                                         *)
(* The discovery query is assumed to return rows that carry a              *)
(* `datasource` column, as the configuration schema requires.              *)
(***************************************************************************)
EXTENDS Integers, Sequences, FiniteSets, TLC

(* ------------------------------ bounds --------------------------------- *)
MaxTargets == 2
MaxRows == 2
MaxTypeCode == 8
MaxSchemaRows == 3
MaxInvocations == 2

(* --------------------------- configuration ----------------------------- *)
Databases == {"db1", "db2"}
master_db == "master"
default_db == "Sales"

(* Python's None for the string error channel, and an unassigned local.    *)
None == "None"
NoJson == [kind |-> "None"]
Unbound == [kind |-> "Unbound"]

NoDataMessage == "No data was returned."
CancelledMessage == "Query cancelled by user."
QueryErrorMessage == "query error"
ConnectErrorMessage == "connect error"

(* The empty mapping BaseSQLQueryRunner.get_schema hands to _get_tables.   *)
NewSchema == <<>>

(* ------------------------------ helpers -------------------------------- *)
BoundedSeq(S, n) == UNION {[1..k -> S] : k \in 0..n}

RECURSIVE SumSeq(_)
SumSeq(s) == IF s = <<>> THEN 0 ELSE Head(s) + SumSeq(Tail(s))

RECURSIVE Flatten(_)
Flatten(ss) == IF ss = <<>> THEN <<>> ELSE Head(ss) \o Flatten(Tail(ss))

(* --------------------------- type mapping ------------------------------ *)
(* A table that reports code 3 as an integer, as the driver documents it.  *)
types_map_integer3 == (1 :> "string") @@ (2 :> "boolean") @@ (3 :> "integer")
                      @@ (4 :> "datetime") @@ (5 :> "float")

types_map == (1 :> "string") @@ (2 :> "boolean") @@ (3 :> "float")
             @@ (4 :> "datetime") @@ (5 :> "float")

(* types_map.get(code, None) *)
TypesMapGet(code) == IF code \in DOMAIN types_map THEN types_map[code] ELSE None

(* BaseQueryRunner.fetch_columns: one column descriptor per (name, type).  *)
fetch_columns(pairs) ==
    [i \in 1..Len(pairs) |-> [name |-> pairs[i][1], type |-> pairs[i][2]]]

(* dict(zip(names, row)): a later duplicate key overwrites an earlier one. *)
DictZip(names, row) ==
    LET n == IF Len(names) < Len(row) THEN Len(names) ELSE Len(row)
        last(k) == CHOOSE j \in 1..n :
                      /\ names[j] = k
                      /\ \A j2 \in 1..n : names[j2] = k => j2 <= j
    IN  [k \in {names[j] : j \in 1..n} |-> row[last(k)]]

(* json.dumps / json.loads of a result set: the text is a distinct value.  *)
Dumps(d) == [kind |-> "json", columns |-> d.columns, rows |-> d.rows]
Loads(j) == [kind |-> "dict", columns |-> j.columns, rows |-> j.rows]

(* ------------------------- driver environment -------------------------- *)
(* cursor.description: sequences of <<name, type code>>, or None.          *)
NoDescription == <<>>
DatasourceDescription == << <<"datasource", 1>> >>
Descriptions == { << <<"id", 3>>, <<"name", 1>>, <<"ok", 2>> >>,
                  << <<"total", 5>>, <<"at", 4>>, <<"raw", 7>> >> }

(* The introspection query: its columns, and the (table_schema,            *)
(* table_name, column_name) records it can find.                           *)
SchemaDescription ==
    << <<"table_schema", 1>>, <<"table_name", 1>>, <<"column_name", 1>> >>
Namespaces == {default_db, "dbo2"}
TableNames == {"Orders"}
ColumnNames == {"id", "name"}
CatalogRecords == Namespaces \X TableNames \X ColumnNames

(* What the driver reports as cursor.description for the caller's query.   *)
DescriptionsFor(caller) ==
    CASE caller = "rq_discovery" -> {DatasourceDescription, NoDescription}
      [] caller = "gt_call" -> {SchemaDescription, NoDescription}
      [] OTHER -> Descriptions \cup {NoDescription}

(* The records the driver hands back for call c: record k, cell j.         *)
Record(c, k, width) == [j \in 1..width |-> c * 100 + k * 10 + j]
FetchedRecords(c, n, width) == [k \in 1..n |-> Record(c, k, width)]

(* pymssql.Error argument shapes.                                          *)
QueryErrorArgs == <<"code", QueryErrorMessage>>
ConnectErrorArgs == << <<"code", ConnectErrorMessage>> >>

(* e.args[1], falling back on IndexError to e.args[0][1] (0-based).        *)
ErrorMessage(args) == IF Len(args) >= 2 THEN args[2] ELSE args[1][2]

Faults == {"pymssql.Error", "KeyboardInterrupt", "Exception"}

(* The exception bound by an except clause; only pymssql.Error carries the *)
(* driver's args.                                                          *)
NothingCaught == [type |-> "none", args |-> <<>>]
Caught(fault, args) ==
    [type |-> fault, args |-> IF fault = "pymssql.Error" THEN args ELSE <<>>]

VARIABLES
    pc,            \* position of run_query
    datasources,   \* run_query: rows of the discovery result
    idx,           \* run_query: position of the for loop (1-based)
    total_rows,    \* run_query: accumulated rows
    results,       \* run_query: local `results` (Unbound until assigned)
    error,         \* run_query: local `error`
    logged,        \* run_query: number of logging.exception calls
    retval,        \* run_query: the returned (json, error) pair
    raised,        \* run_query: the exception it ended with
    epc,           \* position of run_query_on_datasource
    e_db,          \* run_query_on_datasource: argument db
    connection,    \* run_query_on_datasource: local `connection`
    description,   \* cursor.description
    data,          \* run_query_on_datasource: local `data`
    json_data,     \* run_query_on_datasource: local `json_data`
    e_error,       \* run_query_on_datasource: local `error`
    e_caught,      \* the exception the try body raised: its type and args
    e_exc,         \* exception run_query_on_datasource is raising
    conn_log,      \* history: driver calls on connections, in order
    calls,         \* history: outcome of every finished executor call
    catalog,       \* the rows the introspection query finds in the database
    schema,        \* _get_tables: the mapping `schema` it was given
    given,         \* history: `schema` as it was when _get_tables was entered
    gt_returns     \* history: what each returning _get_tables call produced

rq_vars == <<pc, datasources, idx, total_rows, results, error, logged, retval, raised>>
ex_vars == <<epc, e_db, connection, description, data, json_data, e_error, e_caught, e_exc>>
gt_vars == <<catalog, schema, given, gt_returns>>
vars == <<rq_vars, ex_vars, conn_log, calls, gt_vars>>

NoException == "none"

Init ==
    /\ pc = "start"
    /\ datasources = <<>>
    /\ idx = 1
    /\ total_rows = <<>>
    /\ results = Unbound
    /\ error = None
    /\ logged = 0
    /\ retval = [kind |-> "none"]
    /\ raised = NoException
    /\ epc = "idle"
    /\ e_db = master_db
    /\ connection = "unbound"
    /\ description = NoDescription
    /\ data = <<>>
    /\ json_data = NoJson
    /\ e_error = None
    /\ e_caught = NothingCaught
    /\ e_exc = NoException
    /\ conn_log = <<>>
    /\ calls = <<>>
    /\ catalog = <<>>
    /\ schema = NewSchema
    /\ given = NewSchema
    /\ gt_returns = <<>>

(* ================= run_query_on_datasource (lines 162-215) ============= *)

(* Entering the function: every local is unassigned.                       *)
EnterExecutor(db) ==
    /\ epc' = "connect"
    /\ e_db' = db
    /\ connection' = "unbound"
    /\ description' = NoDescription
    /\ data' = <<>>
    /\ json_data' = NoJson
    /\ e_error' = None
    /\ e_caught' = NothingCaught
    /\ e_exc' = NoException

HandlerFor(fault) ==
    CASE fault = "pymssql.Error" -> "except_pymssql"
      [] fault = "KeyboardInterrupt" -> "except_interrupt"
      [] OTHER -> "except_other"

(* line 174: connection = pymssql.connect(...)                             *)
Connect ==
    /\ epc = "connect"
    /\ \/ /\ connection' = "open"
          /\ conn_log' = Append(conn_log, <<e_db, "connect">>)
          /\ epc' = "execute"
          /\ UNCHANGED e_caught
       \/ \E fault \in Faults :
          /\ epc' = HandlerFor(fault)
          /\ e_caught' = Caught(fault, ConnectErrorArgs)
          /\ UNCHANGED <<connection, conn_log>>
    /\ UNCHANGED <<rq_vars, gt_vars, e_db, description, data, json_data, e_error, e_exc, calls>>

(* lines 176-182: encode the query, open a cursor, cursor.execute(query)   *)
Execute ==
    /\ epc = "execute"
    /\ \/ /\ \E d \in DescriptionsFor(pc) : description' = d
          /\ epc' = "fetch"
          /\ UNCHANGED e_caught
       \/ \E fault \in Faults :
          /\ epc' = HandlerFor(fault)
          /\ e_caught' = Caught(fault, QueryErrorArgs)
          /\ UNCHANGED description
    /\ UNCHANGED <<rq_vars, gt_vars, e_db, connection, data, json_data, e_error, e_exc, conn_log, calls>>

(* line 183: data = cursor.fetchall()                                      *)
Fetch ==
    /\ epc = "fetch"
    /\ \/ /\ \/ /\ pc = "rq_discovery"
                /\ description # NoDescription
                /\ \E ts \in BoundedSeq(Databases, MaxTargets) :
                      data' = [k \in 1..Len(ts) |-> <<ts[k]>>]
             \/ /\ pc = "gt_call"
                /\ description # NoDescription
                /\ data' = catalog
             \/ /\ pc \notin {"rq_discovery", "gt_call"}
                /\ description # NoDescription
                /\ \E n \in 0..MaxRows :
                      data' = FetchedRecords(Len(calls), n, Len(description))
             \/ /\ description = NoDescription
                /\ data' = <<>>
          /\ epc' = "build"
          /\ UNCHANGED e_caught
       \/ \E fault \in Faults :
          /\ epc' = HandlerFor(fault)
          /\ e_caught' = Caught(fault, QueryErrorArgs)
          /\ UNCHANGED data
    /\ UNCHANGED <<rq_vars, gt_vars, e_db, connection, description, json_data, e_error, e_exc, conn_log, calls>>

(* lines 186-187: columns and rows of the result set                       *)
BuildColumns(desc) ==
    fetch_columns([i \in 1..Len(desc) |-> <<desc[i][1], TypesMapGet(desc[i][2])>>])

BuildRows(columns, records) ==
    LET names == [i \in 1..Len(columns) |-> columns[i].name]
    IN  [k \in 1..Len(records) |-> DictZip(names, records[k])]

(* A build step that treats a statement without a result set as a failure. *)
BuildRaiseOnNoDescription ==
    /\ epc = "build"
    /\ IF description # NoDescription
       THEN LET columns == BuildColumns(description)
                rows == BuildRows(columns, data)
            IN  /\ json_data' = Dumps([columns |-> columns, rows |-> rows])
                /\ e_error' = None
                /\ UNCHANGED e_exc
       ELSE /\ e_exc' = "Exception"
            /\ UNCHANGED <<json_data, e_error>>
    /\ epc' = "finally"
    /\ UNCHANGED <<rq_vars, gt_vars, e_db, connection, description, data, e_caught, conn_log, calls>>

(* lines 185-196: build the result or report "No data was returned."       *)
Build ==
    /\ epc = "build"
    /\ IF description # NoDescription
       THEN LET columns == BuildColumns(description)
                rows == BuildRows(columns, data)
            IN  /\ json_data' = Dumps([columns |-> columns, rows |-> rows])
                /\ e_error' = None
       ELSE /\ e_error' = NoDataMessage
            /\ json_data' = NoJson
    /\ epc' = "finally"
    /\ UNCHANGED <<rq_vars, gt_vars, e_db, connection, description, data, e_caught, e_exc, conn_log, calls>>

(* lines 197-204: except pymssql.Error                                     *)
ExceptPymssqlError ==
    /\ epc = "except_pymssql"
    /\ e_error' = ErrorMessage(e_caught.args)
    /\ json_data' = NoJson
    /\ epc' = "finally"
    /\ UNCHANGED <<rq_vars, gt_vars, e_db, connection, description, data, e_caught, e_exc, conn_log, calls>>

(* A cancellation handler that never tells the connection to cancel.       *)
ExceptKeyboardInterruptNoCancel ==
    /\ epc = "except_interrupt"
    /\ e_error' = CancelledMessage
    /\ json_data' = NoJson
    /\ epc' = "finally"
    /\ UNCHANGED <<rq_vars, gt_vars, e_db, connection, description, data, e_caught, e_exc, conn_log, calls>>

(* lines 205-208: except KeyboardInterrupt                                 *)
ExceptKeyboardInterrupt ==
    /\ epc = "except_interrupt"
    /\ IF connection = "unbound"
       THEN \* connection.cancel() reads an unassigned local
            /\ e_exc' = "UnboundLocalError"
            /\ UNCHANGED <<e_error, json_data, conn_log>>
       ELSE /\ conn_log' = Append(conn_log, <<e_db, "cancel">>)
            /\ e_error' = CancelledMessage
            /\ json_data' = NoJson
            /\ UNCHANGED e_exc
    /\ epc' = "finally"
    /\ UNCHANGED <<rq_vars, gt_vars, e_db, connection, description, data, e_caught, calls>>

(* lines 209-210: except Exception: re-raise                               *)
ExceptException ==
    /\ epc = "except_other"
    /\ e_exc' = "Exception"
    /\ epc' = "finally"
    /\ UNCHANGED <<rq_vars, gt_vars, e_db, connection, description, data, json_data, e_error, e_caught, conn_log, calls>>

(* A finally clause that leaves the connection open for the next call.     *)
FinallyNoClose ==
    /\ epc = "finally"
    /\ IF connection = "unbound"
       THEN /\ e_exc' = "UnboundLocalError"
            /\ epc' = "raised"
       ELSE /\ epc' = IF e_exc = NoException THEN "returned" ELSE "raised"
            /\ UNCHANGED e_exc
    /\ UNCHANGED <<rq_vars, gt_vars, e_db, connection, description, data, json_data, e_error, e_caught, conn_log, calls>>

(* A close that is skipped when an exception is in flight.                 *)
FinallyCloseOnReturnOnly ==
    /\ epc = "finally"
    /\ IF connection = "unbound"
       THEN /\ e_exc' = "UnboundLocalError"
            /\ epc' = "raised"
            /\ UNCHANGED <<connection, conn_log>>
       ELSE IF e_exc = NoException
       THEN /\ connection' = "closed"
            /\ conn_log' = Append(conn_log, <<e_db, "close">>)
            /\ epc' = "returned"
            /\ UNCHANGED e_exc
       ELSE /\ epc' = "raised"
            /\ UNCHANGED <<connection, conn_log, e_exc>>
    /\ UNCHANGED <<rq_vars, gt_vars, e_db, description, data, json_data, e_error, e_caught, calls>>

(* lines 211-215: finally: if connection: connection.close(); then the     *)
(* return statement, or the exception in flight.                           *)
Finally ==
    /\ epc = "finally"
    /\ IF connection = "unbound"
       THEN \* `if connection:` reads an unassigned local
            /\ e_exc' = "UnboundLocalError"
            /\ epc' = "raised"
            /\ UNCHANGED <<connection, conn_log>>
       ELSE /\ connection' = "closed"
            /\ conn_log' = Append(conn_log, <<e_db, "close">>)
            /\ epc' = IF e_exc = NoException THEN "returned" ELSE "raised"
            /\ UNCHANGED e_exc
    /\ UNCHANGED <<rq_vars, gt_vars, e_db, description, data, json_data, e_error, e_caught, calls>>

(* What the finished call handed to its caller.                            *)
CallRecord ==
    IF epc = "raised"
    THEN [db |-> e_db, raised |-> TRUE, json |-> NoJson, error |-> None]
    ELSE [db |-> e_db, raised |-> FALSE, json |-> json_data, error |-> e_error]

LeaveExecutor ==
    /\ epc' = "idle"
    /\ calls' = Append(calls, CallRecord)
    /\ UNCHANGED <<e_db, connection, description, data, json_data, e_error, e_caught, e_exc>>

(* ========================= run_query (lines 139-160) =================== *)

(* A merge that puts the newer rows in front.                              *)
ExtendInFront(total, rows) == rows \o total

(* line 154: total_rows.extend(results['rows'])                            *)
Extend(total, rows) == total \o rows

(* line 141: call the executor with the discovery query on master_db       *)
RunQueryStart ==
    /\ pc = "start"
    /\ pc' = "rq_discovery"
    /\ EnterExecutor(master_db)
    /\ UNCHANGED <<datasources, idx, total_rows, results, error, logged, retval, raised, conn_log, calls>>
    /\ UNCHANGED gt_vars

(* A discovery error handed back to the caller as a soft error.            *)
OnDiscoveryErrorReturn == [pc |-> "rq_returned", raised |-> NoException]

(* lines 143-144: what run_query does with a discovery error               *)
OnDiscoveryError == [pc |-> "rq_raised", raised |-> "Failed retrieving datasources."]

(* lines 141-147: the discovery call returned                              *)
RunQueryDiscoveryReturn ==
    /\ pc = "rq_discovery"
    /\ epc = "returned"
    /\ error' = e_error
    /\ IF e_error # None
       THEN /\ pc' = OnDiscoveryError.pc
            /\ raised' = OnDiscoveryError.raised
            /\ UNCHANGED <<datasources, total_rows>>
       ELSE /\ total_rows' = <<>>
            /\ datasources' = Loads(json_data).rows
            /\ pc' = "rq_loop"
            /\ UNCHANGED raised
    /\ LeaveExecutor
    /\ UNCHANGED <<idx, results, logged, retval, conn_log>>
    /\ UNCHANGED gt_vars

(* line 141: the discovery call raised; nothing catches it                 *)
RunQueryDiscoveryRaise ==
    /\ pc = "rq_discovery"
    /\ epc = "raised"
    /\ pc' = "rq_raised"
    /\ raised' = e_exc
    /\ LeaveExecutor
    /\ UNCHANGED <<datasources, idx, total_rows, results, error, logged, retval, conn_log>>
    /\ UNCHANGED gt_vars

(* lines 149-152: next iteration of the loop calls the executor            *)
RunQueryNextTarget ==
    /\ pc = "rq_loop"
    /\ idx <= Len(datasources)
    /\ pc' = "rq_target"
    /\ EnterExecutor(datasources[idx].datasource)
    /\ UNCHANGED <<datasources, idx, total_rows, results, error, logged, retval, raised, conn_log, calls>>
    /\ UNCHANGED gt_vars

(* A loop body that gives up on the remaining targets after a cancel.      *)
RunQueryTargetReturnStopOnCancel ==
    /\ pc = "rq_target"
    /\ epc = "returned"
    /\ error' = e_error
    /\ IF json_data = NoJson
       THEN /\ logged' = logged + 1
            /\ UNCHANGED <<results, total_rows>>
       ELSE /\ results' = Loads(json_data)
            /\ total_rows' = Extend(total_rows, Loads(json_data).rows)
            /\ UNCHANGED logged
    /\ idx' = IF e_error = CancelledMessage THEN Len(datasources) + 1 ELSE idx + 1
    /\ pc' = "rq_loop"
    /\ LeaveExecutor
    /\ UNCHANGED <<datasources, retval, raised, conn_log>>
    /\ UNCHANGED gt_vars

(* A loop body that keeps a soft error until a later soft error replaces   *)
(* it: a target that returns a result set does not reset `error`.          *)
RunQueryTargetReturnStickyError ==
    /\ pc = "rq_target"
    /\ epc = "returned"
    /\ error' = IF e_error # None THEN e_error ELSE error
    /\ IF json_data = NoJson
       THEN /\ logged' = logged + 1
            /\ UNCHANGED <<results, total_rows>>
       ELSE /\ results' = Loads(json_data)
            /\ total_rows' = Extend(total_rows, Loads(json_data).rows)
            /\ UNCHANGED logged
    /\ idx' = idx + 1
    /\ pc' = "rq_loop"
    /\ LeaveExecutor
    /\ UNCHANGED <<datasources, retval, raised, conn_log>>
    /\ UNCHANGED gt_vars

(* A loop body that keeps the first result's schema instead of the last.   *)
RunQueryTargetReturnFirstWins ==
    /\ pc = "rq_target"
    /\ epc = "returned"
    /\ error' = e_error
    /\ IF json_data = NoJson
       THEN /\ logged' = logged + 1
            /\ UNCHANGED <<results, total_rows>>
       ELSE /\ results' = IF results = Unbound THEN Loads(json_data) ELSE results
            /\ total_rows' = Extend(total_rows, Loads(json_data).rows)
            /\ UNCHANGED logged
    /\ idx' = idx + 1
    /\ pc' = "rq_loop"
    /\ LeaveExecutor
    /\ UNCHANGED <<datasources, retval, raised, conn_log>>
    /\ UNCHANGED gt_vars

(* lines 152-156: the call returned; json.loads(None) raises TypeError,    *)
(* which the except clause logs.                                           *)
RunQueryTargetReturn ==
    /\ pc = "rq_target"
    /\ epc = "returned"
    /\ error' = e_error
    /\ IF json_data = NoJson
       THEN /\ logged' = logged + 1
            /\ UNCHANGED <<results, total_rows>>
       ELSE /\ results' = Loads(json_data)
            /\ total_rows' = Extend(total_rows, Loads(json_data).rows)
            /\ UNCHANGED logged
    /\ idx' = idx + 1
    /\ pc' = "rq_loop"
    /\ LeaveExecutor
    /\ UNCHANGED <<datasources, retval, raised, conn_log>>
    /\ UNCHANGED gt_vars

(* A loop without the try/except: the target's exception ends run_query.   *)
RunQueryTargetRaiseAbort ==
    /\ pc = "rq_target"
    /\ epc = "raised"
    /\ pc' = "rq_raised"
    /\ raised' = e_exc
    /\ LeaveExecutor
    /\ UNCHANGED <<datasources, idx, total_rows, results, error, logged, retval, conn_log>>
    /\ UNCHANGED gt_vars

(* lines 155-156: the call raised an Exception; log it and go on           *)
RunQueryTargetRaise ==
    /\ pc = "rq_target"
    /\ epc = "raised"
    /\ logged' = logged + 1
    /\ idx' = idx + 1
    /\ pc' = "rq_loop"
    /\ LeaveExecutor
    /\ UNCHANGED <<datasources, total_rows, results, error, retval, raised, conn_log>>
    /\ UNCHANGED gt_vars

(* An ending that returns an empty result when no target gave one.         *)
RunQueryFinishEmptyResult ==
    /\ pc = "rq_loop"
    /\ idx > Len(datasources)
    /\ LET final == IF results = Unbound
                    THEN [kind |-> "dict", columns |-> <<>>, rows |-> total_rows]
                    ELSE [results EXCEPT !.rows = total_rows]
       IN  /\ results' = final
           /\ retval' = [kind |-> "pair", json |-> Dumps(final), error |-> error]
    /\ pc' = "rq_returned"
    /\ UNCHANGED <<datasources, idx, total_rows, error, logged, raised, ex_vars, conn_log, calls>>
    /\ UNCHANGED gt_vars

(* lines 158-160: after the loop                                           *)
RunQueryFinish ==
    /\ pc = "rq_loop"
    /\ idx > Len(datasources)
    /\ IF results = Unbound
       THEN /\ pc' = "rq_raised"
            /\ raised' = "UnboundLocalError"
            /\ UNCHANGED <<results, retval>>
       ELSE /\ results' = [results EXCEPT !.rows = total_rows]
            /\ retval' = [kind |-> "pair",
                          json |-> Dumps([results EXCEPT !.rows = total_rows]),
                          error |-> error]
            /\ pc' = "rq_returned"
            /\ UNCHANGED raised
    /\ UNCHANGED <<datasources, idx, total_rows, error, logged, ex_vars, conn_log, calls>>
    /\ UNCHANGED gt_vars

(* ======================== _get_tables (lines 109-137) ================== *)

(* u'{}.{}'.format(table_schema, table_name)                               *)
Format(ns, t) ==
    CASE ns = "dbo2" /\ t = "Orders" -> "dbo2.Orders"
      [] ns = "Sales" /\ t = "Orders" -> "Sales.Orders"

(* lines 127-130: the key of a row's table                                 *)
TableName(row) ==
    IF row.table_schema # default_db
    THEN Format(row.table_schema, row.table_name)
    ELSE row.table_name

(* A loop body that drops a column name the table already has.             *)
AddRowDeduplicated(sch, row) ==
    LET table_name == TableName(row)
        s1 == IF table_name \notin DOMAIN sch
              THEN sch @@ (table_name :> [name |-> table_name, columns |-> <<>>])
              ELSE sch
    IN  IF \E i \in 1..Len(s1[table_name].columns) :
              s1[table_name].columns[i] = row.column_name
        THEN s1
        ELSE [s1 EXCEPT ![table_name].columns = Append(@, row.column_name)]

(* lines 126-135: one iteration of the loop over results['rows']           *)
AddRow(sch, row) ==
    LET table_name == TableName(row)
        s1 == IF table_name \notin DOMAIN sch
              THEN sch @@ (table_name :> [name |-> table_name, columns |-> <<>>])
              ELSE sch
    IN  [s1 EXCEPT ![table_name].columns = Append(@, row.column_name)]

(* lines 126-135: the loop                                                 *)
RECURSIVE AddRows(_, _)
AddRows(sch, rows) ==
    IF rows = <<>> THEN sch ELSE AddRows(AddRow(sch, Head(rows)), Tail(rows))

(* line 137: schema.values(), in no order the code controls                *)
Values(sch) == {sch[k] : k \in DOMAIN sch}

(* An entry that goes on with the mapping of the call before.              *)
GetTablesStartKeepSchema ==
    /\ \/ /\ pc = "start"
          /\ \E rows \in BoundedSeq(CatalogRecords, MaxSchemaRows) : catalog' = rows
       \/ /\ pc \in {"gt_returned", "gt_raised"}
          /\ Len(calls) < MaxInvocations
          /\ UNCHANGED catalog
    /\ schema' = schema
    /\ given' = schema
    /\ pc' = "gt_call"
    /\ EnterExecutor(default_db)
    /\ UNCHANGED <<datasources, idx, total_rows, results, error, logged, retval, raised>>
    /\ UNCHANGED <<conn_log, calls, gt_returns>>

(* lines 109-119: _get_tables is entered with a new mapping, the first     *)
(* time or again on the unchanged database, and calls the executor with    *)
(* the introspection query on the configured db.                           *)
GetTablesStart ==
    /\ \/ /\ pc = "start"
          /\ \E rows \in BoundedSeq(CatalogRecords, MaxSchemaRows) : catalog' = rows
       \/ /\ pc \in {"gt_returned", "gt_raised"}
          /\ Len(calls) < MaxInvocations
          /\ UNCHANGED catalog
    /\ schema' = NewSchema
    /\ given' = NewSchema
    /\ pc' = "gt_call"
    /\ EnterExecutor(default_db)
    /\ UNCHANGED <<datasources, idx, total_rows, results, error, logged, retval, raised>>
    /\ UNCHANGED <<conn_log, calls, gt_returns>>

(* An introspection that hands back the mapping when the query failed.     *)
GetTablesReturnIgnoreError ==
    /\ pc = "gt_call"
    /\ epc = "returned"
    /\ error' = e_error
    /\ schema' = IF e_error # None THEN schema
                 ELSE AddRows(schema, Loads(json_data).rows)
    /\ gt_returns' = Append(gt_returns, Values(schema'))
    /\ pc' = "gt_returned"
    /\ LeaveExecutor
    /\ UNCHANGED <<datasources, idx, total_rows, results, logged, retval, raised>>
    /\ UNCHANGED <<conn_log, catalog, given>>

(* lines 119-137: the introspection call returned                          *)
GetTablesReturn ==
    /\ pc = "gt_call"
    /\ epc = "returned"
    /\ error' = e_error
    /\ IF e_error # None
       THEN /\ pc' = "gt_raised"
            /\ raised' = "Failed getting schema."
            /\ UNCHANGED <<schema, gt_returns>>
       ELSE /\ schema' = AddRows(schema, Loads(json_data).rows)
            /\ gt_returns' = Append(gt_returns, Values(schema'))
            /\ pc' = "gt_returned"
            /\ UNCHANGED raised
    /\ LeaveExecutor
    /\ UNCHANGED <<datasources, idx, total_rows, results, logged, retval>>
    /\ UNCHANGED <<conn_log, catalog, given>>

(* line 119: the introspection call raised; nothing catches it             *)
GetTablesRaise ==
    /\ pc = "gt_call"
    /\ epc = "raised"
    /\ pc' = "gt_raised"
    /\ raised' = e_exc
    /\ LeaveExecutor
    /\ UNCHANGED <<datasources, idx, total_rows, results, error, logged, retval>>
    /\ UNCHANGED <<conn_log, gt_vars>>

Next ==
    \/ RunQueryStart
    \/ Connect
    \/ Execute
    \/ Fetch
    \/ Build
    \/ ExceptPymssqlError
    \/ ExceptKeyboardInterrupt
    \/ ExceptException
    \/ Finally
    \/ RunQueryDiscoveryReturn
    \/ RunQueryDiscoveryRaise
    \/ RunQueryNextTarget
    \/ RunQueryTargetReturn
    \/ RunQueryTargetRaise
    \/ RunQueryFinish
    \/ GetTablesStart
    \/ GetTablesReturn
    \/ GetTablesRaise

Spec == Init /\ [][Next]_vars

TypeOK ==
    /\ pc \in {"start", "rq_discovery", "rq_loop", "rq_target", "rq_returned", "rq_raised",
               "gt_call", "gt_returned", "gt_raised"}
    /\ epc \in {"idle", "connect", "execute", "fetch", "build", "except_pymssql",
                "except_interrupt", "except_other", "finally", "returned", "raised"}
    /\ connection \in {"unbound", "open", "closed"}
    /\ idx \in 1..(MaxTargets + 1)
    /\ logged \in 0..MaxTargets

(* ============================ properties =============================== *)

Finished == pc \in {"rq_returned", "rq_raised"}

InRunQuery ==
    pc \in {"rq_discovery", "rq_loop", "rq_target", "rq_returned", "rq_raised"}

(* The discovery call returned a result set (calls[1] is the discovery).   *)
DiscoverySucceeded ==
    /\ InRunQuery
    /\ Len(calls) >= 1
    /\ ~calls[1].raised
    /\ calls[1].error = None

DiscoveryReportedError ==
    /\ InRunQuery
    /\ Len(calls) >= 1
    /\ ~calls[1].raised
    /\ calls[1].error # None

Targets == [i \in 1..Len(datasources) |-> datasources[i].datasource]

TargetCall(i) == calls[i + 1]

Outcome(c) ==
    IF c.raised THEN "fatal" ELSE IF c.error # None THEN "soft" ELSE "result"

CallRows(c) == IF c.json = NoJson THEN <<>> ELSE c.json.rows
CallColumns(c) == IF c.json = NoJson THEN <<>> ELSE c.json.columns

DoneIdx == 1..(Len(calls) - 1)
NonFatalIdx == {i \in DoneIdx : Outcome(TargetCall(i)) # "fatal"}
SoftIdx == {i \in DoneIdx : Outcome(TargetCall(i)) = "soft"}
ResultIdx == {i \in DoneIdx : Outcome(TargetCall(i)) = "result"}

Max(S) == CHOOSE x \in S : \A y \in S : y <= x

CountEvents(ev) == Cardinality({k \in 1..Len(conn_log) : conn_log[k][2] = ev})

(* The databases run_query_on_datasource was called for inside the loop.   *)
AttemptedDbs ==
    [i \in DoneIdx |-> TargetCall(i).db]
        \o (IF pc = "rq_target" THEN <<e_db>> ELSE <<>>)

(* C1: for a non-empty target list and any outcomes, run_query returns a   *)
(* result whose row count is the sum of the row counts of the targets that *)
(* did not fatally fail.                                                   *)
C1_RowCountOfNonFatalTargets ==
    (Finished /\ DiscoverySucceeded /\ Len(datasources) >= 1) =>
        /\ pc = "rq_returned"
        /\ Len(retval.json.rows) =
              SumSeq([i \in 1..Len(datasources) |->
                        IF Outcome(TargetCall(i)) = "fatal"
                        THEN 0 ELSE Len(CallRows(TargetCall(i)))])

(* C2: once discovery succeeded, the targets attempted so far are a prefix *)
(* of the discovery list (each once, in order, whatever the earlier        *)
(* outcomes), the loop position counts them, and when run_query ends the   *)
(* attempted targets are exactly the discovered ones.                      *)
C2_EachTargetAttemptedOnceInOrder ==
    DiscoverySucceeded =>
        /\ Len(AttemptedDbs) <= Len(Targets)
        /\ AttemptedDbs = SubSeq(Targets, 1, Len(AttemptedDbs))
        /\ (pc = "rq_loop" => Len(AttemptedDbs) = idx - 1)
        /\ (Finished => AttemptedDbs = Targets)

C2_Witness ==
    /\ Finished
    /\ DiscoverySucceeded
    /\ Len(datasources) = 2
    /\ Outcome(TargetCall(1)) = "fatal"
    /\ Outcome(TargetCall(2)) = "result"
    /\ Targets[1] # Targets[2]
    /\ AttemptedDbs = Targets

(* C3: when discovery succeeds with a non-empty target list, run_query     *)
(* returns a (result, error) pair and never raises, whichever targets      *)
(* fatally fail.                                                           *)
C3_FatalTargetNeverAborts ==
    (DiscoverySucceeded /\ Len(datasources) >= 1) => pc # "rq_raised"

(* C4 as claimed: the returned columns are those of the latest target in   *)
(* discovery order among the targets that did not fatally fail.            *)
C4_ColumnsOfLastNonFatalTarget ==
    pc = "rq_returned" =>
        /\ NonFatalIdx # {}
        /\ retval.json.columns = CallColumns(TargetCall(Max(NonFatalIdx)))

(* C4 amended: the returned columns are those of exactly one target, the   *)
(* latest in discovery order among the targets that returned a result set; *)
(* targets ending in a soft error or a fatal failure leave them unchanged. *)
C4_ColumnsOfLastResultSet ==
    pc = "rq_returned" =>
        /\ ResultIdx # {}
        /\ retval.json.columns = TargetCall(Max(ResultIdx)).json.columns

C4_Witness ==
    /\ pc = "rq_returned"
    /\ Len(datasources) = 2
    /\ Outcome(TargetCall(1)) = "result"
    /\ Outcome(TargetCall(2)) = "soft"
    /\ retval.json.columns = TargetCall(1).json.columns

(* C5: the returned rows are the rows of target 1, then those of target 2, *)
(* and so on in discovery order, each target's rows contiguous and in the  *)
(* order that target returned them.                                        *)
C5_RowsInDiscoveryOrder ==
    pc = "rq_returned" =>
        retval.json.rows =
            Flatten([i \in 1..Len(datasources) |-> CallRows(TargetCall(i))])

C5_Witness ==
    /\ pc = "rq_returned"
    /\ \E i, j \in 1..Len(datasources) :
          /\ i < j
          /\ Len(CallRows(TargetCall(i))) = 2
          /\ Len(CallRows(TargetCall(j))) = 2
    /\ Len(retval.json.rows) >= 4

(* C6 as claimed: the returned error is the last soft error observed among *)
(* the targets that did not fatally fail, none if there was no soft error. *)
C6_LastSoftError ==
    pc = "rq_returned" =>
        retval.error = IF SoftIdx = {} THEN None
                       ELSE TargetCall(Max(SoftIdx)).error

(* C6 amended: the returned error is the error value of the latest target  *)
(* in discovery order that did not fatally fail: its soft error, or none   *)
(* when that target returned a result set.  A fatally failing target never *)
(* changes it.                                                             *)
C6_ErrorOfLastNonFatalTarget ==
    pc = "rq_returned" =>
        /\ NonFatalIdx # {}
        /\ retval.error = TargetCall(Max(NonFatalIdx)).error

C6_Witness ==
    /\ pc = "rq_returned"
    /\ Len(datasources) = 2
    /\ Outcome(TargetCall(1)) = "soft"
    /\ Outcome(TargetCall(2)) = "result"
    /\ retval.error = None

(* C7: when the discovery query reports an error, run_query ends in a      *)
(* fatal failure, returns nothing, and no connection is opened to any      *)
(* database other than the master database.                                *)
C7_DiscoveryErrorAborts ==
    DiscoveryReportedError =>
        /\ pc = "rq_raised"
        /\ retval = [kind |-> "none"]
        /\ Len(calls) = 1
        /\ epc = "idle"
        /\ CountEvents("connect") <= 1
        /\ \A k \in 1..Len(conn_log) : conn_log[k][1] = master_db

C7_Witness ==
    /\ DiscoveryReportedError
    /\ calls[1].error = QueryErrorMessage
    /\ pc = "rq_raised"

(* C8: when run_query_on_datasource returns or raises, the connection it   *)
(* opened is closed: every connect in the log has its close.               *)
C8_ConnectionClosedOnExit ==
    epc \in {"returned", "raised"} =>
        /\ connection # "open"
        /\ CountEvents("connect") = CountEvents("close")

C8_Witness ==
    /\ epc = "raised"
    /\ e_caught.type = "Exception"
    /\ connection = "closed"
    /\ conn_log[Len(conn_log)] = <<e_db, "close">>

(* C9: a driver error while connecting makes run_query_on_datasource       *)
(* return (no data, the driver's connection error message) and not raise.  *)
C9_ConnectErrorIsSoft ==
    (epc \in {"returned", "raised"}
         /\ e_caught.type = "pymssql.Error" /\ connection = "unbound") =>
        /\ epc = "returned"
        /\ json_data = NoJson
        /\ e_error = ConnectErrorMessage

(* C10: a user interrupt during execute or fetchall on an open connection  *)
(* makes the call cancel the connection, then close it, and return         *)
(* (no data, "Query cancelled by user.") without raising.                  *)
C10_CancelBeforeClose ==
    (e_caught.type = "KeyboardInterrupt" /\ connection # "unbound"
         /\ epc \in {"finally", "returned", "raised"}) =>
        /\ epc # "raised"
        /\ json_data = NoJson
        /\ e_error = CancelledMessage
        /\ LET n == Len(conn_log)
           IN  IF epc = "finally"
               THEN /\ connection = "open"
                    /\ conn_log[n] = <<e_db, "cancel">>
               ELSE /\ connection = "closed"
                    /\ n >= 3
                    /\ conn_log[n] = <<e_db, "close">>
                    /\ conn_log[n - 1] = <<e_db, "cancel">>

C10_Witness ==
    /\ epc = "returned"
    /\ e_caught.type = "KeyboardInterrupt"
    /\ e_error = CancelledMessage
    /\ pc = "rq_target"

FatalIdx == {i \in DoneIdx : Outcome(TargetCall(i)) = "fatal"}
CancelledIdx == {i \in DoneIdx : TargetCall(i).error = CancelledMessage}

(* C11: the log-and-continue path is taken only by fatally failing         *)
(* targets, so the number of logged failures is the number of targets      *)
(* whose call raised; a soft-error target is merged on the normal path.    *)
C11_OnlyFatalTargetsLogged ==
    DiscoverySucceeded => logged = Cardinality(FatalIdx)

(* C12: once the try body ran to its end, the call does not raise; without *)
(* column descriptors it yields (no data, "No data was returned."), with   *)
(* them a result set with one column per descriptor, one row per fetched   *)
(* record, and no error.                                                   *)
C12_NoDescriptionIsSoftError ==
    (e_caught.type = "none" /\ epc \in {"finally", "returned", "raised"}) =>
        /\ epc # "raised"
        /\ IF description = NoDescription
           THEN /\ json_data = NoJson
                /\ e_error = NoDataMessage
           ELSE /\ json_data.kind = "json"
                /\ Len(json_data.columns) = Len(description)
                /\ \A i \in 1..Len(description) :
                      json_data.columns[i].name = description[i][1]
                /\ Len(json_data.rows) = Len(data)
                /\ e_error = None

C12_Witness ==
    /\ epc = "returned"
    /\ e_caught.type = "none"
    /\ description = NoDescription
    /\ e_error = NoDataMessage
    /\ connection = "closed"

(* The portable types; UNKNOWN is the None that types_map.get falls back   *)
(* on.                                                                     *)
PortableTypes == {"string", "boolean", "float", "datetime", None}

ExpectedType(code) ==
    CASE code = 1 -> "string"
      [] code = 2 -> "boolean"
      [] code = 3 -> "float"
      [] code = 4 -> "datetime"
      [] code = 5 -> "float"
      [] OTHER -> None

TypeCodes == (0 - 1)..MaxTypeCode

(* C13: the type mapping is total: 1 -> STRING, 2 -> BOOLEAN, 3 -> FLOAT,  *)
(* 4 -> DATETIME, 5 -> FLOAT, every other code -> UNKNOWN, and each column *)
(* of a built result set carries the portable type of its driver code.     *)
C13_TypeMappingTotal ==
    /\ \A code \in TypeCodes :
          /\ TypesMapGet(code) = ExpectedType(code)
          /\ TypesMapGet(code) \in PortableTypes
    /\ json_data # NoJson =>
          \A i \in 1..Len(json_data.columns) :
              /\ json_data.columns[i].type = ExpectedType(description[i][2])
              /\ json_data.columns[i].type \in PortableTypes

C13_Witness ==
    /\ pc = "rq_target"
    /\ json_data # NoJson
    /\ \E i, j \in 1..Len(json_data.columns) :
          /\ description[i][2] = 7
          /\ json_data.columns[i].type = None
          /\ description[j][2] = 5
          /\ json_data.columns[j].type = "float"

GetTablesFinished == pc \in {"gt_returned", "gt_raised"}

LastCall == calls[Len(calls)]

(* The qualified name of a (namespace, table, column) record.              *)
QualifiedName(rec) ==
    CASE rec[1] = default_db -> rec[2]
      [] rec[1] = "dbo2" /\ rec[2] = "Orders" -> "dbo2.Orders"

(* The column names of the records of one table, in the order returned.    *)
RECURSIVE ColumnsOf(_, _)
ColumnsOf(recs, q) ==
    IF recs = <<>> THEN <<>>
    ELSE (IF QualifiedName(Head(recs)) = q THEN <<Head(recs)[3]>> ELSE <<>>)
             \o ColumnsOf(Tail(recs), q)

CatalogNames == {QualifiedName(catalog[k]) : k \in 1..Len(catalog)}

(* C14: a returning _get_tables has one entry per distinct qualified name  *)
(* of the rows (bare table name in the default database, namespace.table   *)
(* otherwise), each with exactly the column names of its rows, in the      *)
(* order returned, duplicates kept; it returns these entries.              *)
C14_OneEntryPerQualifiedName ==
    pc = "gt_returned" =>
        /\ DOMAIN schema = CatalogNames
        /\ \A q \in CatalogNames :
              schema[q] = [name |-> q, columns |-> ColumnsOf(catalog, q)]
        /\ gt_returns[Len(gt_returns)] = {schema[q] : q \in CatalogNames}
        /\ Cardinality(gt_returns[Len(gt_returns)]) = Cardinality(CatalogNames)

C14_Witness ==
    /\ pc = "gt_returned"
    /\ catalog = << <<default_db, "Orders", "id">>, <<"dbo2", "Orders", "name">>,
                    <<default_db, "Orders", "id">> >>
    /\ DOMAIN schema = {"Orders", "dbo2.Orders"}
    /\ schema["Orders"].columns = <<"id", "id">>
    /\ schema["dbo2.Orders"].columns = <<"name">>

C17_ErrorLeavesSchemaUnchanged ==
    (GetTablesFinished /\ ~LastCall.raised /\ LastCall.error # None) =>
        /\ pc = "gt_raised"
        /\ raised = "Failed getting schema."
        /\ schema = given
        /\ DOMAIN schema = {}
        /\ Len(gt_returns) =
              Cardinality({k \in 1..Len(calls) :
                              ~calls[k].raised /\ calls[k].error = None})

C17_Witness ==
    /\ pc = "gt_raised"
    /\ ~LastCall.raised
    /\ LastCall.error = NoDataMessage
    /\ Len(catalog) >= 1
    /\ schema = given

(* C16: a cancellation of target i ends only that target's call: run_query *)
(* ends only after the loop went through every discovered target, each of  *)
(* them queried in its turn.                                               *)
C16_CancelEndsOnlyCurrentTarget ==
    (DiscoverySucceeded /\ CancelledIdx # {}) =>
        /\ pc \in {"rq_loop", "rq_target", "rq_returned", "rq_raised"}
        /\ Finished =>
              /\ idx = Len(datasources) + 1
              /\ \A j \in 1..Len(datasources) :
                    j \in DoneIdx /\ TargetCall(j).db = Targets[j]

C16_Witness ==
    /\ Finished
    /\ DiscoverySucceeded
    /\ Len(datasources) = 2
    /\ 1 \in CancelledIdx
    /\ Outcome(TargetCall(2)) = "result"
    /\ \E k \in 1..Len(conn_log) :
          /\ conn_log[k] = <<Targets[1], "cancel">>
          /\ \E k2 \in (k + 1)..Len(conn_log) :
                conn_log[k2] = <<Targets[2], "connect">>

OpenCount == CountEvents("connect") - CountEvents("close")

(* C18: at most one connection is open at any time: none is open when      *)
(* a call is about to connect (the one before it is closed), one is open   *)
(* exactly while the current call holds it, and none is open when          *)
(* run_query has returned or raised.                                       *)
C18_AtMostOneConnection ==
    /\ OpenCount \in {0, 1}
    /\ OpenCount = 1 <=> connection = "open"
    /\ epc \in {"idle", "connect", "returned", "raised"} => OpenCount = 0
    /\ Finished => OpenCount = 0

C18_Witness ==
    /\ pc = "rq_target"
    /\ idx = 2
    /\ connection = "open"
    /\ CountEvents("connect") = 3
    /\ CountEvents("close") = 2

(* C19: run_query returns normally exactly when discovery succeeded and at *)
(* least one target returned a result set; otherwise it ends in a fatal    *)
(* failure.  What it returns always carries data, also next to an error.   *)
C19_ReturnsIffSomeResultSet ==
    (InRunQuery /\ Finished) =>
        /\ pc = "rq_returned" <=> (DiscoverySucceeded /\ ResultIdx # {})
        /\ pc = "rq_raised" <=> raised # NoException
        /\ pc = "rq_returned" =>
              /\ retval.kind = "pair"
              /\ retval.json # NoJson
              /\ retval.json.kind = "json"
        /\ pc = "rq_raised" => retval = [kind |-> "none"]

C19_Witness ==
    /\ pc = "rq_returned"
    /\ retval.error # None
    /\ retval.json.kind = "json"
    /\ SoftIdx # {}

=============================================================================
